---- MODULE Spec2Model ----
(***************************************************************************)
(* Task manager API of backend/app.py: the tasks table and the HTTP        *)
(* handlers over it.                                                       *)
(*                                                                         *)
(* tasks is the committed content of the tasks table, nextId the value the *)
(* id sequence hands out next, now the clock read by datetime.utcnow.      *)
(* req/resp are the request being served and its response, prev is the    *)
(* committed table as that request found it; deleted records the ids whose *)
(* DELETE returned 200.  Spec serves one request at a time.  SpecConc runs *)
(* two PUT requests in two sessions side by side (pc, snap, wreq, wresp),  *)
(* log is the order of their commits and base the row before the first.    *)
(***************************************************************************)
EXTENDS Integers, FiniteSets, Sequences, TLC

VARIABLES tasks, nextId, now, req, resp, prev, deleted,
          pc, snap, wreq, wresp, log, base

vars == <<tasks, nextId, now, req, resp, prev, deleted,
          pc, snap, wreq, wresp, log, base>>

concVars == <<pc, snap, wreq, wresp, log, base>>

----------------------------------------------------------------------------
(* Bounds *)

\* ids the sequence hands out
MaxId == 2

\* readings of the clock
MaxTime == 1

----------------------------------------------------------------------------
(* Requests *)

\* JSON null in a request body, NULL in a column
NULL == "<null>"

\* marks a key that is not in the request body
Absent == "<absent>"

Keys == {"title", "description", "status"}

\* request.get_json() returned a dict
Body(t, d, s) == [kind |-> "dict", title |-> t, description |-> d, status |-> s]

\* request.get_json() returned None: no JSON payload was sent
NoBody == [kind |-> "none", title |-> Absent, description |-> Absent, status |-> Absent]

\* request.get_json() raised: a zero-length or malformed JSON payload
BadBody == [kind |-> "raise", title |-> Absent, description |-> Absent, status |-> Absent]

Bodies ==
    {NoBody, BadBody,
     Body(Absent, Absent, Absent), Body(Absent, Absent, "done"),
     Body("A", Absent, Absent), Body("", Absent, Absent), Body(NULL, Absent, Absent),
     Body("A", "d", "done")}

\* 'k' in data
Has(body, k) == body[k] # Absent

\* data.get(k, default)
Get(body, k, default) == IF Has(body, k) THEN body[k] ELSE default

\* not data: None or the empty dict
Falsy(body) == body.kind = "none" \/ \A k \in Keys : ~Has(body, k)

Ids == 1..MaxId

Request(op, id, body, ok) == [op |-> op, id |-> id, body |-> body, ok |-> ok]

Response(status, kind, payload) == [status |-> status, kind |-> kind, payload |-> payload]

NoRequest == Request("NONE", 0, NoBody, TRUE)

NoResponse == Response(0, "none", {})

----------------------------------------------------------------------------
(* The tasks table *)

\* primary keys in the table
IdsOf(store) == {r.id : r \in store}

\* Task.query.get(id), for an id that is there
Row(store, id) == CHOOSE r \in store : r.id = id

\* datetime.isoformat()
isoformat(t) == <<"iso", t>>

\* Task.to_dict
to_dict(row) ==
    [id |-> row.id, title |-> row.title, description |-> row.description,
     status |-> row.status,
     created_at |-> isoformat(row.created_at),
     updated_at |-> isoformat(row.updated_at)]

\* [task.to_dict() for task in Task.query.all()]
ListResult(store) == {to_dict(r) : r \in store}

\* faulty variant: the title column declared without nullable=False
ConstraintsOkNullable(row) == TRUE

\* nullable=False on tasks.title
ConstraintsOk(row) == row.title # NULL

\* primary_key=True on tasks.id
PkFree(store, row) == row.id \notin IdsOf(store)

\* faulty variant: data.get(k) without the default
NewTaskNoDefaults(id, body, t1, t2) ==
    [id |-> id,
     title |-> body.title,
     description |-> Get(body, "description", NULL),
     status |-> Get(body, "status", NULL),
     created_at |-> t1,
     updated_at |-> t2]

\* Task(title=..., description=..., status=...) as inserted: the id from the
\* sequence, created_at and updated_at each from its own call of
\* datetime.utcnow, created_at first
NewTask(id, body, t1, t2) ==
    [id |-> id,
     title |-> body.title,
     description |-> Get(body, "description", ""),
     status |-> Get(body, "status", "pending"),
     created_at |-> t1,
     updated_at |-> t2]

\* attributes that update_task assigns
Assigned(body) == {k \in Keys : Has(body, k)}

\* assigned attributes whose value differs from the loaded one: the columns
\* of the UPDATE the flush emits
NetChanges(loaded, body) == {k \in Assigned(body) : body[k] # loaded[k]}

\* faulty variant: data.get(k, default) assigned for every key
FlushResetAbsent(row, loaded, body, t) ==
    [id |-> row.id,
     title |-> Get(body, "title", row.title),
     description |-> Get(body, "description", ""),
     status |-> Get(body, "status", "pending"),
     created_at |-> row.created_at,
     updated_at |-> t]

\* faulty variant: updated_at assigned by the handler on every PUT
FlushAlwaysTouch(row, loaded, body, t) ==
    [id |-> row.id,
     title |-> Get(body, "title", row.title),
     description |-> Get(body, "description", row.description),
     status |-> Get(body, "status", row.status),
     created_at |-> row.created_at,
     updated_at |-> t]

\* the row after the flush of a session that loaded it as `loaded`: the
\* changed columns are written, and onupdate=datetime.utcnow fires for
\* updated_at iff an UPDATE is emitted
Flush(row, loaded, body, t) ==
    LET ch == NetChanges(loaded, body) IN
    IF ch = {} THEN row
    ELSE [id |-> row.id,
          title |-> IF "title" \in ch THEN body.title ELSE row.title,
          description |-> IF "description" \in ch THEN body.description ELSE row.description,
          status |-> IF "status" \in ch THEN body.status ELSE row.status,
          created_at |-> row.created_at,
          updated_at |-> t]

\* db.session.add(task)
Insert(store, row) == store \cup {row}

\* faulty variant: the delete never reaches the table
RemoveNothing(store, id) == store

\* db.session.delete(task)
Remove(store, id) == {r \in store : r.id # id}

\* the UPDATE of one row
Replace(store, row) == {r \in store : r.id # row.id} \cup {row}

\* faulty variant: the change stays when the commit raised
CommitNoRollback(store, cand, success) == cand

\* db.session.commit(), or db.session.rollback() when it raised
Commit(store, cand, success) == IF success THEN cand ELSE store

\* faulty variant: the probe's exception is not caught
HealthStatusUncaught(ok) == IF ok THEN 200 ELSE 500

\* status of /health for the outcome of db.session.execute('SELECT 1')
HealthStatus(ok) == IF ok THEN 200 ELSE 503

----------------------------------------------------------------------------
(* State after construction *)

Workers == {1, 2}

NoRow == [id |-> 0, title |-> NULL, description |-> NULL, status |-> NULL,
          created_at |-> 0, updated_at |-> 0]

Init ==
    /\ tasks = {}
    /\ nextId = 1
    /\ now = 0
    /\ req = NoRequest
    /\ resp = NoResponse
    /\ prev = {}
    /\ deleted = {}
    /\ pc = [w \in Workers |-> "idle"]
    /\ snap = [w \in Workers |-> NoRow]
    /\ wreq = [w \in Workers |-> NoRequest]
    /\ wresp = [w \in Workers |-> 0]
    /\ log = <<>>
    /\ base = NoRow

----------------------------------------------------------------------------
(* Handlers *)

\* no request is being served
Idle == req.op = "NONE"

\* the clock read by datetime.utcnow advances
Tick ==
    /\ Idle
    /\ now < MaxTime
    /\ now' = now + 1
    /\ UNCHANGED <<tasks, nextId, req, resp, prev, deleted>>

\* the response is sent and the server takes the next request
SendResponse ==
    /\ ~Idle
    /\ req' = NoRequest
    /\ resp' = NoResponse
    /\ prev' = {}
    /\ UNCHANGED <<tasks, nextId, now, deleted>>

\* GET /health; ok: db.session.execute('SELECT 1') raises nothing
health_check(ok) ==
    /\ Idle
    /\ req' = Request("HEALTH", 0, NoBody, ok)
    /\ resp' = Response(HealthStatus(ok), IF ok THEN "healthy" ELSE "unhealthy", {})
    /\ prev' = tasks
    /\ UNCHANGED <<tasks, nextId, now, deleted>>

\* GET /ready; ok: whether the storage is reachable, which the handler
\* never asks
readiness_check(ok) ==
    /\ Idle
    /\ req' = Request("READY", 0, NoBody, ok)
    /\ resp' = Response(200, "ready", {})
    /\ prev' = tasks
    /\ UNCHANGED <<tasks, nextId, now, deleted>>

\* GET /api/tasks
get_tasks ==
    /\ Idle
    /\ req' = Request("LIST", 0, NoBody, TRUE)
    /\ resp' = Response(200, "list", ListResult(tasks))
    /\ prev' = tasks
    /\ UNCHANGED <<tasks, nextId, now, deleted>>

\* GET /api/tasks/<id>
get_task(id) ==
    /\ Idle
    /\ req' = Request("GET", id, NoBody, TRUE)
    /\ resp' = IF id \in IdsOf(tasks)
               THEN Response(200, "task", {to_dict(Row(tasks, id))})
               ELSE Response(404, "html", {})
    /\ prev' = tasks
    /\ UNCHANGED <<tasks, nextId, now, deleted>>

\* POST /api/tasks; ok: the storage raises nothing of its own during the
\* commit (req.ok records it only when the commit is reached)
create_task(body, ok) ==
    /\ Idle
    /\ prev' = tasks
    /\ UNCHANGED deleted
    /\ IF body.kind = "raise"
       THEN \* the HTTPException of get_json is caught by except Exception
            /\ req' = Request("POST", 0, body, TRUE)
            /\ resp' = Response(500, "error", {})
            /\ UNCHANGED <<tasks, nextId, now>>
       ELSE IF Falsy(body) \/ ~Has(body, "title")
       THEN /\ req' = Request("POST", 0, body, TRUE)
            /\ resp' = Response(400, "error", {})
            /\ UNCHANGED <<tasks, nextId, now>>
       ELSE /\ nextId <= MaxId
            /\ req' = Request("POST", 0, body, ok)
            /\ \E d \in {0, 1} :
                 /\ now + d <= MaxTime
                 /\ now' = now + d
                 /\ LET row == NewTask(nextId, body, now, now + d)
                        success == ok /\ ConstraintsOk(row) /\ PkFree(tasks, row)
                    IN  /\ tasks' = Commit(tasks, Insert(tasks, row), success)
                        /\ IF success
                           THEN /\ nextId' = nextId + 1
                                /\ resp' = Response(201, "task", {to_dict(row)})
                           ELSE \* a sequence value drawn by a failed INSERT
                                \* is not given back
                                /\ \E adv \in {0, 1} :
                                     /\ ok => adv = 1
                                     /\ nextId' = nextId + adv
                                /\ resp' = Response(500, "error", {})

\* PUT /api/tasks/<id>
update_task(id, body, ok) ==
    /\ Idle
    /\ prev' = tasks
    /\ UNCHANGED <<nextId, now, deleted>>
    /\ IF id \notin IdsOf(tasks)
       THEN \* the NotFound of get_or_404 is raised inside the try and caught
            \* by except Exception
            /\ req' = Request("PUT", id, body, TRUE)
            /\ resp' = Response(500, "error", {})
            /\ tasks' = tasks
       ELSE IF body.kind # "dict"
       THEN \* get_json raises, or 'title' in None raises TypeError
            /\ req' = Request("PUT", id, body, TRUE)
            /\ resp' = Response(500, "error", {})
            /\ tasks' = tasks
       ELSE LET old == Row(tasks, id)
                row == Flush(old, old, body, now)
                success == ok /\ ConstraintsOk(row)
            IN  /\ req' = Request("PUT", id, body, ok)
                /\ tasks' = Commit(tasks, Replace(tasks, row), success)
                /\ resp' = IF success
                           THEN Response(200, "task", {to_dict(row)})
                           ELSE Response(500, "error", {})

\* DELETE /api/tasks/<id>
delete_task(id, ok) ==
    /\ Idle
    /\ prev' = tasks
    /\ UNCHANGED <<nextId, now>>
    /\ IF id \notin IdsOf(tasks)
       THEN /\ req' = Request("DELETE", id, NoBody, TRUE)
            /\ resp' = Response(500, "error", {})
            /\ UNCHANGED <<tasks, deleted>>
       ELSE /\ req' = Request("DELETE", id, NoBody, ok)
            /\ tasks' = Commit(tasks, Remove(tasks, id), ok)
            /\ deleted' = IF ok THEN deleted \cup {id} ELSE deleted
            /\ resp' = IF ok THEN Response(200, "message", {})
                       ELSE Response(500, "error", {})

Next ==
    \/ Tick /\ UNCHANGED concVars
    \/ SendResponse /\ UNCHANGED concVars
    \/ \E ok \in BOOLEAN : health_check(ok) /\ UNCHANGED concVars
    \/ \E ok \in BOOLEAN : readiness_check(ok) /\ UNCHANGED concVars
    \/ get_tasks /\ UNCHANGED concVars
    \/ \E id \in Ids : get_task(id) /\ UNCHANGED concVars
    \/ \E body \in Bodies, ok \in BOOLEAN : create_task(body, ok) /\ UNCHANGED concVars
    \/ \E id \in Ids, body \in Bodies, ok \in BOOLEAN : update_task(id, body, ok) /\ UNCHANGED concVars
    \/ \E id \in Ids, ok \in BOOLEAN : delete_task(id, ok) /\ UNCHANGED concVars

Spec == Init /\ [][Next]_vars

----------------------------------------------------------------------------
(* Two PUT requests served side by side, each in its own session *)

\* the sessions the concurrent requests may send
PutBodies == {Body("A", Absent, Absent), Body("", Absent, Absent),
              Body(Absent, Absent, "done"), Body("A", "d", "done")}

\* update_task up to the load: Task.query.get_or_404(task_id) reads the
\* committed row into the session
put_load(w, id, body) ==
    /\ Idle
    /\ pc[w] = "idle"
    /\ wreq' = [wreq EXCEPT ![w] = Request("PUT", id, body, TRUE)]
    /\ IF id \notin IdsOf(tasks)
       THEN /\ pc' = [pc EXCEPT ![w] = "done"]
            /\ wresp' = [wresp EXCEPT ![w] = 500]
            /\ snap' = snap
       ELSE /\ pc' = [pc EXCEPT ![w] = "loaded"]
            /\ snap' = [snap EXCEPT ![w] = Row(tasks, id)]
            /\ wresp' = wresp
    /\ UNCHANGED <<tasks, nextId, now, req, resp, prev, deleted, log, base>>

\* update_task from the assignments to the response: the flush writes the
\* columns that differ from the loaded row onto the committed row, then the
\* transaction commits
put_commit(w, ok) ==
    /\ pc[w] = "loaded"
    /\ pc' = [pc EXCEPT ![w] = "done"]
    /\ snap' = [snap EXCEPT ![w] = NoRow]
    /\ wreq' = [wreq EXCEPT ![w].ok = ok]
    /\ LET id == wreq[w].id
           body == wreq[w].body
           cur == Row(tasks, id)
           row == Flush(cur, snap[w], body, now)
           success == ok /\ ConstraintsOk(row)
       IN  /\ tasks' = Commit(tasks, Replace(tasks, row), success)
           /\ wresp' = [wresp EXCEPT ![w] = IF success THEN 200 ELSE 500]
           /\ log' = IF success THEN Append(log, w) ELSE log
           /\ base' = IF success /\ log = <<>> THEN cur ELSE base
    /\ UNCHANGED <<nextId, now, req, resp, prev, deleted>>

NextConc ==
    \/ Tick /\ UNCHANGED concVars
    \/ SendResponse /\ UNCHANGED concVars
    \/ \E body \in Bodies, ok \in BOOLEAN : create_task(body, ok) /\ UNCHANGED concVars
    \/ \E w \in Workers, id \in Ids, body \in PutBodies : put_load(w, id, body)
    \/ \E w \in Workers, ok \in BOOLEAN : put_commit(w, ok)

SpecConc == Init /\ [][NextConc]_vars

----------------------------------------------------------------------------
(* Claims.  A request is being answered in the states where req.op names   *)
(* it: prev is the table before the request, tasks the table after it.     *)

Answered(op) == req.op = op

\* the request reached db.session.commit() and the storage raised there
CommitRaised == req.op \in {"POST", "PUT", "DELETE"} /\ ~req.ok

\* title, description and status of a row
Fields(row) == [k \in Keys |-> row[k]]

\* rows of the table other than the one with this id
Others(store, id) == {r \in store : r.id # id}

\* C1: GET, PUT and DELETE on an id that is not in the store answer 404 and
\* leave the store unchanged (so a second and a third DELETE answer 404).
C1_MissingIdIs404 ==
    (req.op \in {"GET", "PUT", "DELETE"} /\ req.id \notin IdsOf(prev))
        => (resp.status = 404 /\ tasks = prev)

\* C2: POST with a missing body, an empty body, a body without title or a
\* body whose title is the empty string answers 400 and creates no row.
C2_InvalidCreateIs400 ==
    (Answered("POST") /\ (req.body.kind # "dict" \/ Falsy(req.body)
                          \/ ~Has(req.body, "title") \/ req.body.title = ""))
        => (resp.status = 400 /\ ListResult(tasks) = ListResult(prev))

\* what C3 says of a create answered 201, up to the relation between the two
\* timestamps of the new row
CreateAddsOne(stamps(_, _)) ==
    /\ (Answered("POST") /\ req.body.kind = "dict" /\ Has(req.body, "title")
            /\ req.body.title # NULL /\ req.ok)
          => resp.status = 201
    /\ (Answered("POST") /\ resp.status = 201)
        => /\ Has(req.body, "title")
           /\ prev \subseteq tasks
           /\ Cardinality(tasks) = Cardinality(prev) + 1
           /\ \A r \in tasks \ prev :
                /\ r.id > 0
                /\ r.id \notin IdsOf(prev)
                /\ resp.payload = {to_dict(r)}
                /\ r.title = req.body.title
                /\ ~Has(req.body, "description") => r.description = ""
                /\ ~Has(req.body, "status") => r.status = "pending"
                /\ stamps(r.created_at, r.updated_at)

StampsEqual(c, u) == c = u

StampsOrdered(c, u) == c <= u /\ u <= now

\* C3 as stated: a create answered 201 adds exactly one task, with a fresh
\* positive id, description "" and status "pending" when omitted, and
\* created_at equal to updated_at; the tasks stored before are unchanged.
C3_CreateStampsEqual == CreateAddsOne(StampsEqual)

\* C3 amended: as above, but created_at <= updated_at: the two are separate
\* readings of the clock, created_at taken first.
C3_CreateAddsOneTask == CreateAddsOne(StampsOrdered)

C3_Witness ==
    /\ Answered("POST") /\ resp.status = 201
    /\ ~Has(req.body, "description") /\ ~Has(req.body, "status")
    /\ prev # {}
    /\ \E r \in tasks \ prev : r.created_at < r.updated_at

\* C4: a PUT answered 200 overwrites exactly the fields whose keys are in
\* the body, keeps every other field of the task, leaves every other task
\* unchanged, and does not move updated_at backwards.
C4_UpdateIsPartial ==
    (Answered("PUT") /\ resp.status = 200)
        => /\ req.id \in IdsOf(prev) /\ req.id \in IdsOf(tasks)
           /\ Others(tasks, req.id) = Others(prev, req.id)
           /\ Cardinality(tasks) = Cardinality(prev)
           /\ LET old == Row(prev, req.id)
                  new == Row(tasks, req.id)
              IN  /\ \A k \in Keys :
                        new[k] = IF Has(req.body, k) THEN req.body[k] ELSE old[k]
                  /\ new.created_at = old.created_at
                  /\ new.updated_at >= old.updated_at
                  /\ resp.payload = {to_dict(new)}

C4_Witness ==
    /\ Answered("PUT") /\ resp.status = 200
    /\ req.body = Body("", Absent, Absent)
    /\ Others(prev, req.id) # {}
    /\ LET old == Row(prev, req.id)
           new == Row(tasks, req.id)
       IN  /\ old.title = "A" /\ old.description = "d" /\ old.status = "done"
           /\ new.title = "" /\ new.description = "d" /\ new.status = "done"
           /\ new.updated_at > old.updated_at

\* a PUT on a stored task with a dict body and no storage error of its own
NoOpPut(cond) ==
    /\ Answered("PUT") /\ req.id \in IdsOf(prev)
    /\ req.body.kind = "dict" /\ req.ok
    /\ cond

C6_DeleteIsPermanent ==
    /\ \A id \in deleted : id \notin IdsOf(tasks)
    /\ (Answered("GET") /\ req.id \in deleted) => resp.status = 404
    /\ Answered("LIST") => \A t \in resp.payload : t.id \notin deleted
    /\ (Answered("DELETE") /\ resp.status = 200)
          => /\ req.id \in IdsOf(prev)
             /\ req.id \in deleted
             /\ tasks = Others(prev, req.id)
             /\ Cardinality(tasks) = Cardinality(prev) - 1

C6_Witness ==
    /\ Answered("GET") /\ req.id \in deleted /\ resp.status = 404
    /\ tasks # {}

C8_StoreInvariants ==
    /\ \A r1, r2 \in tasks : r1.id = r2.id => r1 = r2
    /\ \A r \in tasks : r.title # NULL /\ r.created_at <= r.updated_at /\ r.id < nextId
    /\ ~Idle => \A r \in prev : \A r2 \in tasks :
                   r2.id = r.id => r2.created_at = r.created_at

C8_Witness ==
    /\ Answered("PUT") /\ req.body.title = NULL /\ req.id \in IdsOf(prev)
    /\ Cardinality(tasks) = 2

\* C9: /health answers 200 "healthy" when the probe succeeds and 503
\* "unhealthy" when it fails, never 500, and never changes the store;
\* /ready answers 200 whether or not the storage is reachable.
C9_HealthAndReady ==
    /\ Answered("HEALTH") =>
          /\ req.ok => (resp.status = 200 /\ resp.kind = "healthy")
          /\ ~req.ok => (resp.status = 503 /\ resp.kind = "unhealthy")
          /\ tasks = prev
    /\ Answered("READY") => (resp.status = 200 /\ tasks = prev)

C9_Witness ==
    /\ Answered("HEALTH") /\ ~req.ok /\ resp.status = 503
    /\ tasks # {}

\* the update of a body applied to a row's fields
Apply(fields, body) == [k \in Keys |-> IF Has(body, k) THEN body[k] ELSE fields[k]]

\* both concurrent PUTs answered 200 for the same task
BothCommitted ==
    /\ \A w \in Workers : pc[w] = "done" /\ wresp[w] = 200
    /\ wreq[1].id = wreq[2].id
    /\ Len(log) = 2

\* C10: when two concurrent PUTs on the same task both answer 200, the
\* stored task is what applying the two updates in the order of their
\* commits gives, and each field holds a value one of them wrote or the
\* value stored before.
C10_LastWriterWins ==
    BothCommitted =>
        LET final == Fields(Row(tasks, wreq[1].id))
            b1 == wreq[log[1]].body
            b2 == wreq[log[2]].body
        IN  /\ final = Apply(Apply(Fields(base), b1), b2)
            /\ \A k \in Keys : final[k] \in {base[k], b1[k], b2[k]} \ {Absent}

====
